---- MODULE Spec2Model ----
(***************************************************************************)
(* Caroline OS neural interface: the AutonomousDecisionEngine of           *)
(* src/Caroline_Soul_Core_Pack/neural_interface.py (the pending-decision   *)
(* queue, the decision history, the four event rules, the drain loop) and  *)
(* the /force_decision route that feeds it.                                *)
(*                                                                         *)
(* A Python dict is a TLA+ record whose DOMAIN is the set of keys it has:  *)
(* a Decision that has not been executed has no "status" and no            *)
(* "executed_at" key, exactly as in the source.                            *)
(***************************************************************************)
EXTENDS Integers, Sequences, FiniteSets, TLC

\* ---------------------------------------------------------------- bounds
\* Decisions ever created in one behaviour (the queue is unbounded in source).
MaxDecisions == 2
\* Largest value of the wall clock datetime.now() reads.
MaxTime == 1
\* Events ever put on the data queues, all queues together.
MaxEvents == 1
\* GET /api/status requests received.
MaxStatusRequests == 2

\* ------------------------------------------------------ program constants
\* neural_interface.py:218  travel_time_change > 10
TrafficDelayThreshold == 10

\* ------------------------------------------------------- Python values
\* Python's None, where it is stored in a field that otherwise holds a str.
PyNone == "None:NoneType"
\* The return value of a function that has no return statement.
RetNone == [kind |-> "NoneType"]
\* The empty dict {}.
EmptyDict == [k \in {} |-> PyNone]
\* key in dict
Has(d, k) == k \in DOMAIN d

\* ------------------------------------------------------------ CarolineOS
\* The services list of start_background_services, in its order.
Services ==
  << "scanner_monitor", "weather_processor", "traffic_analyzer",
     "schedule_optimizer", "context_processor", "decision_engine" >>
\* The five services that poll an event source.
EventServices ==
  { "scanner_monitor", "weather_processor", "traffic_analyzer",
    "schedule_optimizer", "context_processor" }
\* The keys of CarolineOS.data_queues.
QueueNames ==
  { "scanner_feed", "weather_feed", "traffic_feed", "schedule_events",
    "user_context" }
\* The data queue each service puts on.
QueueOf(s) ==
  CASE s = "scanner_monitor" -> "scanner_feed"
    [] s = "weather_processor" -> "weather_feed"
    [] s = "traffic_analyzer" -> "traffic_feed"
    [] s = "schedule_optimizer" -> "schedule_events"
    [] s = "context_processor" -> "user_context"

\* ----------------------------------------------------------- the inputs
\* Scanner events: location_extracted True, False, or absent.
ScannerEvents ==
  { [priority |-> "routine", location_extracted |-> TRUE],
    [priority |-> "routine", location_extracted |-> FALSE],
    [priority |-> "routine"] }
\* Weather events: alerts empty, non-empty, or absent.
WeatherEvents ==
  { [alerts |-> <<>>],
    [alerts |-> <<"flood warning">>],
    [forecast_changes |-> FALSE] }
\* Traffic events: the simulator's shape (travel_time_change nested in
\* route_analysis), a flat payload, and a route_analysis without the field.
TravelTimeChanges == {5, 10, 11, 15}
TrafficEvents ==
  { [route_analysis |-> [travel_time_change |-> n]] : n \in TravelTimeChanges }
  \cup { [travel_time_change |-> n] : n \in {5, 15} }
  \cup { [route_analysis |-> [primary_route |-> "normal"]] }
\* Schedule events: conflicts_resolved 0, positive, or absent.
ScheduleEvents ==
  { [conflicts_resolved |-> 0],
    [conflicts_resolved |-> 1],
    [efficiency_gain |-> 0] }
\* JSON bodies of POST /force_decision.
\* A payload may itself carry urgency and auto_execute keys; "data" and "type"
\* may each be missing from the body.
ForceBodies ==
  { [type |-> "custom_type", data |-> EmptyDict],
    [type |-> "client_communication",
     data |-> [urgency |-> "routine", auto_execute |-> FALSE]],
    [type |-> "custom_type"],
    [data |-> EmptyDict] }

VARIABLES
  pending_decisions,  \* AutonomousDecisionEngine.pending_decisions (queue.Queue, FIFO)
  decision_history,   \* AutonomousDecisionEngine.decision_history (list)
  now,                \* the wall clock read by datetime.now()
  drain_pc,           \* where the caller of process_pending_decisions stands
  decision,           \* the local `decision` of process_pending_decisions: <<>> or <<d>>
  last_call,          \* outcome of the last engine call that returned or raised
  next_oid,           \* number of Decision dicts created so far (object identity)
  drain_snapshot,     \* oids on the queue when the current/last drain was called
  created_at_call,    \* next_oid when the current/last drain was called
  created_at_return,  \* next_oid when the last drain returned
  system_status,      \* CarolineOS.system_status
  background_services,\* CarolineOS.background_services: name -> handle
  supervisor,         \* where start_background_services stands in its for loop
  svc_pc,             \* where each service thread stands in its loop
  data_queues,        \* CarolineOS.data_queues: name -> queue.Queue (FIFO)
  user_preferences,   \* AutonomousDecisionEngine.user_preferences
  registry,           \* CarolineServiceRegistry.services: name -> entry
  init_call,          \* where the running initialize_services call stands
  status_requests,    \* GET /api/status requests received so far
  health_response,    \* HTTP status of the last GET /api/health response
  current_strategy,   \* LLMOrchestrator.current_strategy
  strategy_response   \* HTTP status of the last POST /api/llm/strategy response

\* The state of CarolineOS outside the decision engine's queue and history.
osVars == <<system_status, background_services, supervisor, svc_pc,
            data_queues, user_preferences>>

\* The state of the Flask application around CarolineOS: the service
\* registry of app.py and the LLM orchestrator.
appVars == <<registry, init_call, status_requests, health_response,
             current_strategy, strategy_response>>

vars == <<pending_decisions, decision_history, now, drain_pc, decision,
          last_call, next_oid, drain_snapshot, created_at_call, created_at_return,
          system_status, background_services, supervisor, svc_pc,
          data_queues, user_preferences,
          registry, init_call, status_requests, health_response,
          current_strategy, strategy_response>>

\* ------------------------------------------------------------ the engine
\* AutonomousDecisionEngine.__init__ / CarolineOS.__init__
Init ==
  /\ pending_decisions = <<>>
  /\ decision_history = <<>>
  /\ now = 0
  /\ drain_pc = "idle"
  /\ decision = <<>>
  /\ last_call = [op |-> "none", raised |-> PyNone, ret |-> RetNone]
  /\ next_oid = 0
  /\ drain_snapshot = {}
  /\ created_at_call = 0
  /\ created_at_return = 0
  /\ system_status = "initializing"
  /\ background_services = EmptyDict
  /\ supervisor = [at |-> 1, raised |-> FALSE]
  /\ svc_pc = [s \in EventServices \cup {"decision_engine"} |-> "unstarted"]
  /\ data_queues = [q \in QueueNames |-> <<>>]
  /\ user_preferences = EmptyDict
  /\ registry = [name \in { "neural_interface", "llm_orchestrator",
                            "voice_engines", "unrestricted_core",
                            "memory_bank" } |->
                   [status |-> "registered"]]
  /\ init_call = [at |-> 0, phase |-> "idle"]
  /\ status_requests = 0
  /\ health_response = 0
  /\ current_strategy = "adaptive_selection"
  /\ strategy_response = 0

\* A call that returned None.
Returned(op) == [op |-> op, raised |-> PyNone, ret |-> RetNone]
\* A call that raised.
Raised(op, exc) == [op |-> op, raised |-> exc, ret |-> RetNone]

\* self.pending_decisions.put(decision): the dict literal gets its identity.
put(d) ==
  /\ next_oid < MaxDecisions
  /\ pending_decisions' = Append(pending_decisions, d @@ [oid |-> next_oid])
  /\ next_oid' = next_oid + 1

\* The rule falls through: nothing is put.
no_put == UNCHANGED <<pending_decisions, next_oid>>

\* The part of the state no producer touches.
producer_frame ==
  /\ UNCHANGED <<decision_history, now, drain_pc, decision,
                 drain_snapshot, created_at_call, created_at_return>>
  /\ UNCHANGED osVars
  /\ UNCHANGED appVars

\* Mutant: tests the key's presence, not its truth.
scanner_rule_present(scanner_data) == Has(scanner_data, "location_extracted")

\* if scanner_data.get("location_extracted"):
scanner_rule(scanner_data) ==
  Has(scanner_data, "location_extracted") /\ scanner_data.location_extracted

\* The body of process_scanner_event: the rule and its put.
apply_scanner_rule(scanner_data) ==
  IF scanner_rule(scanner_data)
    THEN put([type |-> "route_optimization",
              trigger |-> "scanner_event",
              data |-> scanner_data,
              urgency |-> "medium",
              auto_execute |-> TRUE])
    ELSE no_put

\* A direct call of process_scanner_event (the CLI's test command does one).
process_scanner_event(scanner_data) ==
  /\ apply_scanner_rule(scanner_data)
  /\ last_call' = Returned("process_scanner_event")
  /\ producer_frame

\* Mutant: tests that the alerts key is there, not that the list is non-empty.
weather_rule_present(weather_data) == Has(weather_data, "alerts")

\* if weather_data.get("alerts"):  (an empty list is falsy)
weather_rule(weather_data) ==
  Has(weather_data, "alerts") /\ Len(weather_data.alerts) > 0

\* The body of process_weather_event.
apply_weather_rule(weather_data) ==
  IF weather_rule(weather_data)
    THEN put([type |-> "schedule_adjustment",
              trigger |-> "weather_alert",
              data |-> weather_data,
              urgency |-> "high",
              auto_execute |-> TRUE])
    ELSE no_put

process_weather_event(weather_data) ==
  /\ apply_weather_rule(weather_data)
  /\ last_call' = Returned("process_weather_event")
  /\ producer_frame

\* traffic_data["route_analysis"]["travel_time_change"]: a subscript, which
\* raises KeyError when either key is missing.
traffic_keys(traffic_data) ==
  /\ Has(traffic_data, "route_analysis")
  /\ Has(traffic_data.route_analysis, "travel_time_change")

\* Mutant: >= instead of >.
traffic_rule_inclusive(traffic_data) ==
  traffic_data.route_analysis.travel_time_change >= TrafficDelayThreshold

traffic_rule(traffic_data) ==
  traffic_data.route_analysis.travel_time_change > TrafficDelayThreshold

\* The body of process_traffic_event once both subscripts have succeeded.
apply_traffic_rule(traffic_data) ==
  IF traffic_rule(traffic_data)
    THEN put([type |-> "route_change",
              trigger |-> "traffic_delay",
              data |-> traffic_data,
              urgency |-> "medium",
              auto_execute |-> TRUE])
    ELSE no_put

process_traffic_event(traffic_data) ==
  /\ IF ~traffic_keys(traffic_data)
       THEN /\ no_put
            /\ last_call' = Raised("process_traffic_event", "KeyError")
       ELSE /\ apply_traffic_rule(traffic_data)
            /\ last_call' = Returned("process_traffic_event")
  /\ producer_frame

\* Mutant: >= 0 instead of > 0.
schedule_rule_inclusive(schedule_data) ==
  (IF Has(schedule_data, "conflicts_resolved")
     THEN schedule_data.conflicts_resolved ELSE 0) >= 0

\* if schedule_data.get("conflicts_resolved", 0) > 0:
schedule_rule(schedule_data) ==
  (IF Has(schedule_data, "conflicts_resolved")
     THEN schedule_data.conflicts_resolved ELSE 0) > 0

\* The body of process_schedule_event.
apply_schedule_rule(schedule_data) ==
  IF schedule_rule(schedule_data)
    THEN put([type |-> "client_communication",
              trigger |-> "schedule_conflict",
              data |-> schedule_data,
              urgency |-> "high",
              auto_execute |-> FALSE])
    ELSE no_put

process_schedule_event(schedule_data) ==
  /\ apply_schedule_rule(schedule_data)
  /\ last_call' = Returned("process_schedule_event")
  /\ producer_frame

\* Mutant: the payload is merged over the literals ({..., **decision_data}).
forced_decision_merged(body) ==
  (IF Has(body, "data") THEN body.data ELSE EmptyDict) @@
  [type |-> IF Has(body, "type") THEN body.type ELSE PyNone,
   trigger |-> "user_request",
   data |-> IF Has(body, "data") THEN body.data ELSE EmptyDict,
   urgency |-> "immediate",
   auto_execute |-> TRUE,
   forced |-> TRUE]

\* POST /force_decision: data.get('type'), data.get('data', {}); the payload
\* is nested under "data", the other keys are literals.
forced_decision(body) ==
  [type |-> IF Has(body, "type") THEN body.type ELSE PyNone,
   trigger |-> "user_request",
   data |-> IF Has(body, "data") THEN body.data ELSE EmptyDict,
   urgency |-> "immediate",
   auto_execute |-> TRUE,
   forced |-> TRUE]

\* Mutant: the route also executes the Decision itself, at once.
force_decision_immediate(body) ==
  /\ put(forced_decision(body))
  /\ decision_history' =
       Append(decision_history,
              forced_decision(body) @@
              [oid |-> next_oid, executed_at |-> now, status |-> "executed"])
  /\ last_call' = Returned("force_decision")
  /\ UNCHANGED <<now, drain_pc, decision,
                 drain_snapshot, created_at_call, created_at_return>>
  /\ UNCHANGED osVars
  /\ UNCHANGED appVars

force_decision(body) ==
  /\ put(forced_decision(body))
  /\ last_call' = Returned("force_decision")
  /\ producer_frame

\* ------------------------------------------------------------- the drain
\* decision.get("auto_execute")
auto_execute_flag(d) == Has(d, "auto_execute") /\ d.auto_execute

\* Mutant: every Decision is marked executed, whatever auto_execute says.
executed_always(d) == d @@ [executed_at |-> now, status |-> "executed"]

\* Mutant: executed_at is stamped only on the auto-executed Decisions.
executed_unstamped(d) ==
  IF auto_execute_flag(d)
    THEN d @@ [executed_at |-> now, status |-> "executed"]
    ELSE d @@ [status |-> "pending_approval"]

\* The two assignments of execute_decision: the dict gains executed_at and status.
executed(d) ==
  d @@ [executed_at |-> now,
        status |-> IF auto_execute_flag(d) THEN "executed" ELSE "pending_approval"]

\* Mutant: the Decision is inserted at the front of the history.
execute_decision_front(d) ==
  decision_history' = <<executed(d)>> \o decision_history

\* Mutant: only an auto-executed Decision is recorded.
execute_decision_auto_only(d) ==
  decision_history' =
    IF auto_execute_flag(d)
      THEN Append(decision_history, executed(d))
      ELSE decision_history

\* execute_decision(decision): stamp, set the status, append to the history.
execute_decision(d) ==
  decision_history' = Append(decision_history, executed(d))

\* process_pending_decisions has no return statement: it returns None.
drain_return ==
  /\ drain_pc' = "idle"
  /\ last_call' = Returned("process_pending_decisions")
  /\ created_at_return' = next_oid

\* The oids of the Decisions on the pending queue.
pending_oids == { pending_decisions[i].oid : i \in 1..Len(pending_decisions) }

\* Mutant: the loop body is entered without the `empty()` test.
process_pending_decisions_untested ==
  /\ drain_pc = "idle"
  /\ drain_snapshot' = pending_oids
  /\ created_at_call' = next_oid
  /\ drain_pc' = "get"
  /\ UNCHANGED <<pending_decisions, decision_history, now, decision, next_oid,
                 last_call, created_at_return>>
  /\ UNCHANGED osVars
  /\ UNCHANGED appVars

\* process_pending_decisions() is called; the first `while not empty()` test.
process_pending_decisions ==
  /\ drain_pc = "idle"
  /\ drain_snapshot' = pending_oids
  /\ created_at_call' = next_oid
  /\ IF pending_decisions = <<>>
       THEN drain_return
       ELSE /\ drain_pc' = "get"
            /\ UNCHANGED <<last_call, created_at_return>>
  /\ UNCHANGED <<pending_decisions, decision_history, now, decision, next_oid>>
  /\ UNCHANGED osVars
  /\ UNCHANGED appVars

\* Mutant: the drain reads the head of the queue without removing it.
drain_get_peek ==
  /\ drain_pc = "get"
  /\ IF pending_decisions = <<>>
       THEN /\ drain_return
            /\ UNCHANGED <<pending_decisions, decision>>
       ELSE /\ decision' = <<Head(pending_decisions)>>
            /\ pending_decisions' = pending_decisions
            /\ drain_pc' = "exec"
            /\ UNCHANGED <<last_call, created_at_return>>
  /\ UNCHANGED <<decision_history, now, next_oid, drain_snapshot, created_at_call>>
  /\ UNCHANGED osVars
  /\ UNCHANGED appVars

\* Mutant: the newest Decision is popped first (a LifoQueue).
drain_get_lifo ==
  /\ drain_pc = "get"
  /\ IF pending_decisions = <<>>
       THEN /\ drain_return
            /\ UNCHANGED <<pending_decisions, decision>>
       ELSE /\ decision' = <<pending_decisions[Len(pending_decisions)]>>
            /\ pending_decisions' =
                 SubSeq(pending_decisions, 1, Len(pending_decisions) - 1)
            /\ drain_pc' = "exec"
            /\ UNCHANGED <<last_call, created_at_return>>
  /\ UNCHANGED <<decision_history, now, next_oid, drain_snapshot, created_at_call>>
  /\ UNCHANGED osVars
  /\ UNCHANGED appVars

\* decision = self.pending_decisions.get_nowait(); queue.Empty breaks the loop.
drain_get ==
  /\ drain_pc = "get"
  /\ IF pending_decisions = <<>>
       THEN /\ drain_return
            /\ UNCHANGED <<pending_decisions, decision>>
       ELSE /\ decision' = <<Head(pending_decisions)>>
            /\ pending_decisions' = Tail(pending_decisions)
            /\ drain_pc' = "exec"
            /\ UNCHANGED <<last_call, created_at_return>>
  /\ UNCHANGED <<decision_history, now, next_oid, drain_snapshot, created_at_call>>
  /\ UNCHANGED osVars
  /\ UNCHANGED appVars

\* Mutant: a Decision that needs approval is put back on the queue to be
\* tried again, instead of being recorded.
drain_execute_requeue ==
  /\ drain_pc = "exec"
  /\ IF auto_execute_flag(decision[1])
       THEN /\ execute_decision(decision[1])
            /\ UNCHANGED pending_decisions
       ELSE /\ pending_decisions' = Append(pending_decisions, decision[1])
            /\ UNCHANGED decision_history
  /\ decision' = <<>>
  /\ drain_pc' = "check"
  /\ UNCHANGED <<now, last_call, next_oid,
                 drain_snapshot, created_at_call, created_at_return>>
  /\ UNCHANGED osVars
  /\ UNCHANGED appVars

\* self.execute_decision(decision)
drain_execute ==
  /\ drain_pc = "exec"
  /\ execute_decision(decision[1])
  /\ decision' = <<>>
  /\ drain_pc' = "check"
  /\ UNCHANGED <<pending_decisions, now, last_call, next_oid,
                 drain_snapshot, created_at_call, created_at_return>>
  /\ UNCHANGED osVars
  /\ UNCHANGED appVars

\* Mutant: `if` instead of `while`: the call returns after one Decision.
drain_check_once ==
  /\ drain_pc = "check"
  /\ drain_return
  /\ UNCHANGED <<pending_decisions, decision_history, now, decision, next_oid,
                 drain_snapshot, created_at_call>>
  /\ UNCHANGED osVars
  /\ UNCHANGED appVars

\* The `while not self.pending_decisions.empty()` test after an iteration.
drain_check ==
  /\ drain_pc = "check"
  /\ IF pending_decisions = <<>>
       THEN drain_return
       ELSE /\ drain_pc' = "get"
            /\ UNCHANGED <<last_call, created_at_return>>
  /\ UNCHANGED <<pending_decisions, decision_history, now, decision, next_oid,
                 drain_snapshot, created_at_call>>
  /\ UNCHANGED osVars
  /\ UNCHANGED appVars

\* Time passes between two reads of datetime.now().
Tick ==
  /\ now < MaxTime
  /\ now' = now + 1
  /\ UNCHANGED <<pending_decisions, decision_history, drain_pc, decision,
                 last_call, next_oid, drain_snapshot, created_at_call,
                 created_at_return>>
  /\ UNCHANGED osVars
  /\ UNCHANGED appVars

Next ==
  \/ \E e \in ScannerEvents : process_scanner_event(e)
  \/ \E e \in WeatherEvents : process_weather_event(e)
  \/ \E e \in TrafficEvents : process_traffic_event(e)
  \/ \E e \in ScheduleEvents : process_schedule_event(e)
  \/ \E b \in ForceBodies : force_decision(b)
  \/ process_pending_decisions
  \/ drain_get
  \/ drain_execute
  \/ drain_check
  \/ Tick

Spec == Init /\ [][Next]_vars

\* ============================================================ properties
\* Helpers of the properties below.
Status(d) == IF Has(d, "status") THEN d.status ELSE "pending"
TerminalStatuses == {"executed", "pending_approval"}
HistoryIdx == 1..Len(decision_history)
PendingIdx == 1..Len(pending_decisions)
\* Every Decision that exists: on the queue, held by the drain, or in the history.
Queued == { pending_decisions[i] : i \in PendingIdx }
Held == { decision[i] : i \in 1..Len(decision) }
Recorded == { decision_history[i] : i \in HistoryIdx }
\* This step put exactly one new Decision with these fields at the tail of the
\* pending queue, and left the history alone.
PutOne(type, trigger, urgency, auto, data) ==
  /\ Len(pending_decisions') = Len(pending_decisions) + 1
  /\ SubSeq(pending_decisions', 1, Len(pending_decisions)) = pending_decisions
  /\ LET d == pending_decisions'[Len(pending_decisions')] IN
       /\ d.type = type
       /\ d.trigger = trigger
       /\ d.urgency = urgency
       /\ d.auto_execute = auto
       /\ d.data = data
       /\ Status(d) = "pending"
  /\ decision_history' = decision_history
\* This step created no Decision.
PutNone ==
  /\ pending_decisions' = pending_decisions
  /\ decision_history' = decision_history

\* ---- C1 (as stated) ----------------------------------------------------
\* C1, original: every Decision in the history is executed iff auto_execute,
\* and every client_communication Decision has auto_execute = false and so
\* ends as pending_approval.
C1_Original ==
  \A i \in HistoryIdx :
    LET d == decision_history[i] IN
      /\ (d.status = "executed") <=> (d.auto_execute = TRUE)
      /\ d.auto_execute = FALSE => d.status = "pending_approval"
      /\ d.type = "client_communication" =>
           d.auto_execute = FALSE /\ d.status = "pending_approval"

\* C1, amended: every Decision in the history is executed iff auto_execute;
\* one with auto_execute = false ends as pending_approval; every
\* client_communication Decision made by the schedule rule is such a one,
\* while a forced Decision of that type is executed.
C1_StatusFollowsAutoExecute ==
  \A i \in HistoryIdx :
    LET d == decision_history[i] IN
      /\ d.status \in TerminalStatuses
      /\ (d.status = "executed") <=> (d.auto_execute = TRUE)
      /\ d.auto_execute = FALSE => d.status = "pending_approval"
      /\ d.trigger = "schedule_conflict" =>
           /\ d.type = "client_communication"
           /\ d.auto_execute = FALSE
           /\ d.status = "pending_approval"
      /\ (d.type = "client_communication" /\ d.trigger = "user_request") =>
           d.status = "executed"

C1_Witness ==
  /\ \E i \in HistoryIdx :
       /\ decision_history[i].trigger = "schedule_conflict"
       /\ decision_history[i].status = "pending_approval"
  /\ \E i \in HistoryIdx :
       /\ decision_history[i].trigger = "user_request"
       /\ decision_history[i].type = "client_communication"
       /\ decision_history[i].status = "executed"

\* ---- C2 ----------------------------------------------------------------
\* C2: for every Decision, on the pending queue, held by the drain or in the
\* history, executed_at is set iff its status is executed or
\* pending_approval; a Decision that is still pending carries no executed_at.
C2_ExecutedAtIffTerminal ==
  /\ \A d \in Queued \cup Held \cup Recorded :
       Has(d, "executed_at") <=> (Status(d) \in TerminalStatuses)
  /\ \A d \in Queued \cup Held :
       Status(d) = "pending" /\ ~Has(d, "executed_at")
  /\ \A d \in Recorded : Has(d, "executed_at")

C2_Witness ==
  /\ \E d \in Queued : ~Has(d, "executed_at")
  /\ \E d \in Recorded : d.status = "pending_approval" /\ Has(d, "executed_at")

\* ---- C3 ----------------------------------------------------------------
\* C3: process_scanner_event puts exactly one Decision (route_optimization,
\* scanner_event, medium, auto_execute true) on the pending queue for an event
\* with location_extracted == true, and none for an event whose
\* location_extracted is false or absent.
C3_ScannerRule ==
  [][\A e \in ScannerEvents :
       process_scanner_event(e) =>
         IF Has(e, "location_extracted") /\ e.location_extracted = TRUE
           THEN PutOne("route_optimization", "scanner_event", "medium", TRUE, e)
           ELSE PutNone]_vars

C3_Witness ==
  /\ last_call.op = "process_scanner_event"
  /\ pending_decisions # <<>>
  /\ LET d == pending_decisions[Len(pending_decisions)] IN
       /\ d.type = "route_optimization"
       /\ d.data.location_extracted = TRUE

\* ---- C4 ----------------------------------------------------------------
\* The travel_time_change a traffic event carries, at the top level of the
\* payload (as the claim writes it) or inside route_analysis.
CarriesTravelTimeChange(e) == Has(e, "travel_time_change") \/ traffic_keys(e)
TravelTimeChangeOf(e) ==
  IF Has(e, "travel_time_change")
    THEN e.travel_time_change
    ELSE e.route_analysis.travel_time_change

C5_WeatherDrained ==
  /\ \A o \in 0..(created_at_return - 1) : \E d \in Recorded : d.oid = o
  /\ \A d \in Queued \cup Held :
       d.trigger = "weather_alert" => d.oid >= created_at_return
  /\ \A d \in Recorded :
       d.trigger = "weather_alert" => d.status = "executed"

\* C5: a weather event creates exactly one Decision (schedule_adjustment,
\* weather_alert, high, auto_execute true) iff its alerts list is non-empty,
\* none if it is empty; once a drain has returned after the Decision was
\* created, it is in the history with status executed.
C5_WeatherRule ==
  /\ [][\A e \in WeatherEvents :
          process_weather_event(e) =>
            IF Has(e, "alerts") /\ e.alerts # <<>>
              THEN PutOne("schedule_adjustment", "weather_alert", "high", TRUE, e)
              ELSE PutNone]_vars
  /\ []C5_WeatherDrained

C5_Witness ==
  /\ drain_pc = "idle"
  /\ \E d \in Recorded :
       /\ d.trigger = "weather_alert"
       /\ d.data.alerts = <<"flood warning">>
       /\ d.status = "executed"
       /\ d.oid < created_at_return

\* ---- C6 ----------------------------------------------------------------
\* C6: a schedule event with conflicts_resolved == 0 creates no Decision; one
\* with conflicts_resolved > 0 creates exactly one (client_communication,
\* schedule_conflict, high, auto_execute false).
C6_ScheduleRule ==
  [][\A e \in ScheduleEvents :
       (Has(e, "conflicts_resolved") /\ process_schedule_event(e)) =>
         IF e.conflicts_resolved > 0
           THEN PutOne("client_communication", "schedule_conflict", "high", FALSE, e)
           ELSE e.conflicts_resolved = 0 /\ PutNone]_vars

C6_Witness ==
  /\ last_call.op = "process_schedule_event"
  /\ pending_decisions # <<>>
  /\ LET d == pending_decisions[Len(pending_decisions)] IN
       /\ d.type = "client_communication"
       /\ d.auto_execute = FALSE
       /\ d.data.conflicts_resolved = 1

\* ---- C7 ----------------------------------------------------------------
\* C7: for every body of force_decision, also one whose payload has urgency
\* and auto_execute keys, the Decision it creates has urgency immediate,
\* auto_execute true, trigger user_request and the caller-supplied type.
C7_ForceBypassesRules ==
  [][\A b \in ForceBodies :
       force_decision(b) =>
         /\ PutOne(IF Has(b, "type") THEN b.type ELSE PyNone,
                   "user_request", "immediate", TRUE,
                   IF Has(b, "data") THEN b.data ELSE EmptyDict)
         /\ pending_decisions'[Len(pending_decisions')].forced = TRUE]_vars

C7_Witness ==
  /\ last_call.op = "force_decision"
  /\ pending_decisions # <<>>
  /\ LET d == pending_decisions[Len(pending_decisions)] IN
       /\ d.trigger = "user_request"
       /\ d.data = [urgency |-> "routine", auto_execute |-> FALSE]
       /\ d.urgency = "immediate"
       /\ d.auto_execute = TRUE

\* ---- C8 ----------------------------------------------------------------
\* C8, original: a call to force_decision makes the history grow by exactly
\* one entry, and that entry has status executed.
C8_Original ==
  [][(\E b \in ForceBodies : force_decision(b)) =>
       /\ Len(decision_history') = Len(decision_history) + 1
       /\ decision_history'[Len(decision_history')].status = "executed"]_vars

\* Every forced Decision created before the last return of a drain is in the
\* history; a forced Decision is in the history at most once, with status
\* executed, and not on the queue as well.
C8_ForcedRecorded ==
  /\ \A o \in 0..(created_at_return - 1) : \E i \in HistoryIdx :
       decision_history[i].oid = o
  /\ \A d \in Queued \cup Held :
       d.trigger = "user_request" =>
         /\ d.oid >= created_at_return
         /\ \A r \in Recorded : r.oid # d.oid
  /\ \A i, j \in HistoryIdx :
       (decision_history[i].trigger = "user_request"
          /\ decision_history[i].oid = decision_history[j].oid) =>
         i = j /\ decision_history[i].status = "executed"

\* C8, amended: the call itself leaves the history unchanged and puts exactly
\* one Decision on the pending queue; the drain step that executes this
\* Decision makes the history grow by exactly one entry, which has status
\* executed, and no later step records it again.
C8_ForcedExecutedByDrain ==
  /\ [][(\E b \in ForceBodies : force_decision(b)) =>
          /\ decision_history' = decision_history
          /\ Len(pending_decisions') = Len(pending_decisions) + 1]_vars
  /\ [][(drain_execute /\ decision[1].trigger = "user_request") =>
          /\ Len(decision_history') = Len(decision_history) + 1
          /\ SubSeq(decision_history', 1, Len(decision_history)) = decision_history
          /\ decision_history'[Len(decision_history')].oid = decision[1].oid
          /\ decision_history'[Len(decision_history')].status = "executed"]_vars
  /\ []C8_ForcedRecorded

C8_Witness ==
  /\ drain_pc = "idle"
  /\ Len(decision_history) = 1
  /\ decision_history[1].trigger = "user_request"
  /\ decision_history[1].type = "custom_type"
  /\ decision_history[1].status = "executed"
  /\ created_at_return = 1

\* ---- C9 ----------------------------------------------------------------
\* An int as a return value.
RetInt(n) == [kind |-> "int", val |-> n]
\* The last call of process_pending_decisions found the queue empty and has
\* returned, and nothing was called since.
ReturnedFromEmptyDrain ==
  /\ drain_pc = "idle"
  /\ drain_snapshot = {}
  /\ last_call.op = "process_pending_decisions"

\* C9, original: the drain called on an empty queue returns 0 and leaves the
\* history unchanged, and calling it again has the same effect.
C9_Original ==
  /\ [](ReturnedFromEmptyDrain => last_call.ret = RetInt(0))
  /\ [][(process_pending_decisions /\ pending_decisions = <<>>) =>
          decision_history' = decision_history]_vars

\* C9, amended: the drain called on an empty queue returns None (it has no
\* return value), leaves the history and the queue unchanged and is back at
\* its caller; a second call in a row changes nothing at all.
C9_EmptyDrainReturnsNone ==
  /\ [](ReturnedFromEmptyDrain =>
          /\ last_call.ret = RetNone
          /\ last_call.raised = PyNone
          /\ created_at_return = created_at_call)
  /\ [][(process_pending_decisions /\ pending_decisions = <<>>) =>
          /\ decision_history' = decision_history
          /\ pending_decisions' = <<>>
          /\ decision' = decision
          /\ drain_pc' = "idle"
          /\ last_call' = Returned("process_pending_decisions")]_vars
  /\ [][(process_pending_decisions /\ pending_decisions = <<>>
           /\ ReturnedFromEmptyDrain /\ created_at_call = next_oid) =>
          UNCHANGED vars]_vars

C9_Witness ==
  /\ ReturnedFromEmptyDrain
  /\ pending_decisions = <<>>
  /\ decision_history # <<>>
  /\ created_at_call = next_oid

\* ---- C10 ---------------------------------------------------------------
\* C10: when a drain has returned, every Decision that was on the pending
\* queue when it was called is in the history with a terminal status and
\* executed_at set; if nothing was enqueued since the call, the pending queue
\* is empty.
C10_DrainProcessesAll ==
  drain_pc = "idle" =>
    /\ \A o \in drain_snapshot :
         \E i \in HistoryIdx :
           /\ decision_history[i].oid = o
           /\ decision_history[i].status \in TerminalStatuses
           /\ Has(decision_history[i], "executed_at")
    /\ next_oid = created_at_call => pending_decisions = <<>>

C10_Witness ==
  /\ drain_pc = "idle"
  /\ Cardinality(drain_snapshot) = 2
  /\ next_oid = created_at_call
  /\ Len(decision_history) = 2

\* ---- C11 ---------------------------------------------------------------
\* The oids (creation order = order of the put) along a sequence of Decisions.
Oids(seq) == [i \in 1..Len(seq) |-> seq[i].oid]

\* C11: Decisions are in the history in the order in which they were put on
\* the pending queue, whatever their source and urgency: the history, the
\* Decision the drain holds and the queue, in this order, list the Decisions
\* in creation order.
C11_HistoryInEnqueueOrder ==
  /\ \A i, j \in HistoryIdx :
       i < j => decision_history[i].oid < decision_history[j].oid
  /\ Oids(decision_history \o decision \o pending_decisions)
       = [i \in 1..next_oid |-> i - 1]

C11_Witness ==
  /\ Len(decision_history) = 2
  /\ decision_history[1].trigger = "schedule_conflict"
  /\ decision_history[1].urgency = "high"
  /\ decision_history[2].trigger = "user_request"
  /\ decision_history[2].urgency = "immediate"

\* ---- C12 ---------------------------------------------------------------
\* C12: a Decision goes from pending to executed or pending_approval once,
\* when the drain appends it; the history only grows, by one entry at its end,
\* its entries are never changed, removed or reordered, and a recorded
\* Decision is never on the pending queue or held by the drain again.
C12_HistoryAppendOnly ==
  /\ [][/\ Len(decision_history') \in
             {Len(decision_history), Len(decision_history) + 1}
        /\ SubSeq(decision_history', 1, Len(decision_history)) = decision_history
        /\ Len(decision_history') = Len(decision_history) + 1 =>
             LET new == decision_history'[Len(decision_history')] IN
               /\ decision # <<>>
               /\ Status(decision[1]) = "pending"
               /\ new.oid = decision[1].oid
               /\ new.status \in TerminalStatuses]_vars
  /\ [](\A r \in Recorded :
          /\ r.status \in TerminalStatuses
          /\ \A d \in Queued \cup Held : d.oid # r.oid)

C12_Witness ==
  /\ Len(decision_history) = 2
  /\ decision_history[1].status = "pending_approval"
  /\ decision_history[1].executed_at = 0
  /\ decision_history[2].status = "executed"
  /\ decision_history[2].executed_at = 1

\* ------------------------------------------------- the drain, scheduled
\* CarolineOS.autonomous_decision_service: `while True:` around the call of
\* process_pending_decisions and a sleep; the thread is never joined or
\* stopped, so a step of the drain that can be taken is eventually taken.
autonomous_decision_service ==
  \/ process_pending_decisions
  \/ drain_get
  \/ drain_execute
  \/ drain_check

\* The engine with its callers and the scheduled drain. The clock is held:
\* no step of a producer or of the drain reads it to decide anything, it is
\* only copied into executed_at.
FairNext ==
  \/ \E e \in ScannerEvents : process_scanner_event(e)
  \/ \E e \in WeatherEvents : process_weather_event(e)
  \/ \E e \in TrafficEvents : process_traffic_event(e)
  \/ \E e \in ScheduleEvents : process_schedule_event(e)
  \/ \E b \in ForceBodies : force_decision(b)
  \/ autonomous_decision_service

FairSpec == Init /\ [][FairNext]_vars /\ WF_vars(autonomous_decision_service)

\* -------------------------------------------------- the service threads
\* What each simulator returns: <<>> stands for None, <<e>> for an event.
\* Random text and measurements the engine never reads are left out of the
\* events; a random gate is a choice between <<>> and the event.
simulate_scanner_feed ==
  { <<>>,
    << [timestamp |-> now, channel |-> "county_sheriff",
        location_extracted |-> TRUE, priority |-> "routine"] >> }

fetch_weather_updates ==
  { << [timestamp |-> now, forecast_changes |-> FALSE, alerts |-> <<>>] >> }

analyze_traffic_conditions ==
  { <<>>,
    << [timestamp |-> now,
        route_analysis |-> [primary_route |-> "normal",
                            travel_time_change |-> 0]] >> }

\* Mutant: the schedule simulator reports a resolved conflict.
optimize_schedule_conflict ==
  { << [timestamp |-> now, conflicts_resolved |-> 1, efficiency_gain |-> 0] >> }

optimize_schedule ==
  { << [timestamp |-> now, conflicts_resolved |-> 0, efficiency_gain |-> 0] >> }

update_context ==
  { <<>>,
    << [timestamp |-> now,
        preferences |-> [route_preference |-> "fastest",
                         communication_style |-> "proactive"]] >> }

simulate(s) ==
  CASE s = "scanner_monitor" -> simulate_scanner_feed
    [] s = "weather_processor" -> fetch_weather_updates
    [] s = "traffic_analyzer" -> analyze_traffic_conditions
    [] s = "schedule_optimizer" -> optimize_schedule
    [] s = "context_processor" -> update_context

\* qsize() of all five data queues together.
TotalEvents ==
  Len(data_queues["scanner_feed"]) + Len(data_queues["weather_feed"])
    + Len(data_queues["traffic_feed"]) + Len(data_queues["schedule_events"])
    + Len(data_queues["user_context"])

\* Mutant: the handle is registered without its last_activity timestamp.
service_handle_unstamped(name) ==
  [thread |-> name, status |-> "running"]

\* The dict start_background_services stores for a started thread.
service_handle(name) ==
  [thread |-> name, status |-> "running", last_activity |-> now]

\* One iteration of the for loop of start_background_services that succeeds:
\* thread.start(), then the handle is stored under the service's name.
start_service ==
  /\ ~supervisor.raised
  /\ supervisor.at <= Len(Services)
  /\ LET name == Services[supervisor.at] IN
       /\ svc_pc' = [svc_pc EXCEPT ![name] = "run"]
       /\ background_services' =
            (name :> service_handle(name)) @@ background_services
  /\ supervisor' = [supervisor EXCEPT !.at = @ + 1]
  /\ UNCHANGED <<pending_decisions, decision_history, now, drain_pc, decision,
                 last_call, next_oid, drain_snapshot, created_at_call,
                 created_at_return>>
  /\ UNCHANGED <<system_status, data_queues, user_preferences>>
  /\ UNCHANGED appVars

\* thread.start() raises RuntimeError (the interpreter cannot start a new
\* thread). Nothing catches it: the loop, start_background_services and
\* CarolineOS() are left by the exception.
start_service_raises ==
  /\ ~supervisor.raised
  /\ supervisor.at <= Len(Services)
  /\ supervisor' = [supervisor EXCEPT !.raised = TRUE]
  /\ UNCHANGED <<pending_decisions, decision_history, now, drain_pc, decision,
                 last_call, next_oid, drain_snapshot, created_at_call,
                 created_at_return>>
  /\ UNCHANGED <<system_status, background_services, svc_pc, data_queues,
                 user_preferences>>
  /\ UNCHANGED appVars

\* self.system_status = "operational", after the loop.
startup_completes ==
  /\ ~supervisor.raised
  /\ supervisor.at = Len(Services) + 1
  /\ system_status = "initializing"
  /\ system_status' = "operational"
  /\ UNCHANGED <<pending_decisions, decision_history, now, drain_pc, decision,
                 last_call, next_oid, drain_snapshot, created_at_call,
                 created_at_return>>
  /\ UNCHANGED <<background_services, supervisor, svc_pc, data_queues,
                 user_preferences>>
  /\ UNCHANGED appVars

\* Mutant: a context event also creates a Decision.
update_user_context_deciding(context_data) ==
  /\ user_preferences' =
       IF Has(context_data, "preferences")
         THEN context_data.preferences @@ user_preferences
         ELSE user_preferences
  /\ put([type |-> "context_change",
           trigger |-> "user_context",
           data |-> context_data,
           urgency |-> "medium",
           auto_execute |-> TRUE])

\* self.user_preferences.update(context_data.get("preferences", {}))
update_user_context(context_data) ==
  /\ user_preferences' =
       IF Has(context_data, "preferences")
         THEN context_data.preferences @@ user_preferences
         ELSE user_preferences
  /\ no_put

\* The engine method a service hands its event to.
engine_call(s, data) ==
  CASE s = "scanner_monitor" ->
         apply_scanner_rule(data) /\ UNCHANGED user_preferences
    [] s = "weather_processor" ->
         apply_weather_rule(data) /\ UNCHANGED user_preferences
    [] s = "traffic_analyzer" ->
         apply_traffic_rule(data) /\ UNCHANGED user_preferences
    [] s = "schedule_optimizer" ->
         apply_schedule_rule(data) /\ UNCHANGED user_preferences
    [] s = "context_processor" -> update_user_context(data)

\* The engine method raises before it puts anything.
engine_call_raises(s, data) ==
  s = "traffic_analyzer" /\ ~traffic_keys(data)

\* Mutant: no `if data:`; put(data or {}) whatever the simulator returned.
service_poll_unguarded(s) ==
  /\ svc_pc[s] = "run"
  /\ TotalEvents < MaxEvents
  /\ \E data \in simulate(s) :
       data_queues' =
         [data_queues EXCEPT ![QueueOf(s)] =
            Append(@, IF data = <<>> THEN EmptyDict ELSE data[1])]
  /\ svc_pc' = [svc_pc EXCEPT ![s] = "process"]
  /\ UNCHANGED <<pending_decisions, decision_history, now, drain_pc, decision,
                 last_call, next_oid, drain_snapshot, created_at_call,
                 created_at_return>>
  /\ UNCHANGED <<system_status, background_services, supervisor,
                 user_preferences>>
  /\ UNCHANGED appVars

\* The first half of a tick: data = simulator(); if data: queue.put(data).
\* A tick that produced nothing goes straight to time.sleep.
service_poll(s) ==
  /\ svc_pc[s] = "run"
  /\ \E data \in simulate(s) :
       IF data = <<>>
         THEN /\ svc_pc' = [svc_pc EXCEPT ![s] = "sleep"]
              /\ UNCHANGED data_queues
         ELSE /\ TotalEvents < MaxEvents
              /\ data_queues' =
                   [data_queues EXCEPT ![QueueOf(s)] = Append(@, data[1])]
              /\ svc_pc' = [svc_pc EXCEPT ![s] = "process"]
  /\ UNCHANGED <<pending_decisions, decision_history, now, drain_pc, decision,
                 last_call, next_oid, drain_snapshot, created_at_call,
                 created_at_return>>
  /\ UNCHANGED <<system_status, background_services, supervisor,
                 user_preferences>>
  /\ UNCHANGED appVars

\* The second half of a producing tick: the engine method is called with the
\* event just put (the newest of the service's queue, which only this thread
\* puts on), then time.sleep; an exception of the method goes to the except
\* clause. The outcome goes to the service, not to an outside caller.
service_process(s) ==
  /\ svc_pc[s] = "process"
  /\ LET q == data_queues[QueueOf(s)]
         data == q[Len(q)]
     IN IF engine_call_raises(s, data)
          THEN /\ no_put
               /\ UNCHANGED user_preferences
               /\ svc_pc' = [svc_pc EXCEPT ![s] = "backoff"]
          ELSE /\ engine_call(s, data)
               /\ svc_pc' = [svc_pc EXCEPT ![s] = "sleep"]
  /\ UNCHANGED <<decision_history, now, drain_pc, decision, last_call,
                 drain_snapshot, created_at_call, created_at_return>>
  /\ UNCHANGED <<system_status, background_services, supervisor, data_queues>>
  /\ UNCHANGED appVars

\* Mutant: the except clause also marks the service's handle "error".
service_fault_reported(s) ==
  /\ svc_pc[s] \in {"run", "process"}
  /\ svc_pc' = [svc_pc EXCEPT ![s] = "backoff"]
  /\ background_services' =
       [background_services EXCEPT ![s] = [@ EXCEPT !.status = "error"]]
  /\ UNCHANGED <<pending_decisions, decision_history, now, drain_pc, decision,
                 last_call, next_oid, drain_snapshot, created_at_call,
                 created_at_return>>
  /\ UNCHANGED <<system_status, supervisor, data_queues, user_preferences>>
  /\ UNCHANGED appVars

\* Mutant: no try/except in the loop: the exception ends the thread.
service_fault_fatal(s) ==
  /\ svc_pc[s] \in {"run", "process"}
  /\ svc_pc' = [svc_pc EXCEPT ![s] = "dead"]
  /\ UNCHANGED <<pending_decisions, decision_history, now, drain_pc, decision,
                 last_call, next_oid, drain_snapshot, created_at_call,
                 created_at_return>>
  /\ UNCHANGED <<system_status, background_services, supervisor, data_queues,
                 user_preferences>>
  /\ UNCHANGED appVars

\* An exception raised inside a tick, by the simulator or the put (the thread
\* is at "run") or by the engine method before it puts (at "process"):
\* `except Exception` prints it and calls time.sleep with the recovery delay.
service_fault(s) ==
  /\ svc_pc[s] \in {"run", "process"}
  /\ svc_pc' = [svc_pc EXCEPT ![s] = "backoff"]
  /\ UNCHANGED <<pending_decisions, decision_history, now, drain_pc, decision,
                 last_call, next_oid, drain_snapshot, created_at_call,
                 created_at_return>>
  /\ UNCHANGED <<system_status, background_services, supervisor, data_queues,
                 user_preferences>>
  /\ UNCHANGED appVars

\* time.sleep returns (after the interval or the recovery delay): `while True`
\* starts the next tick.
service_wake(s) ==
  /\ svc_pc[s] \in {"sleep", "backoff"}
  /\ svc_pc' = [svc_pc EXCEPT ![s] = "run"]
  /\ UNCHANGED <<pending_decisions, decision_history, now, drain_pc, decision,
                 last_call, next_oid, drain_snapshot, created_at_call,
                 created_at_return>>
  /\ UNCHANGED <<system_status, background_services, supervisor, data_queues,
                 user_preferences>>
  /\ UNCHANGED appVars

\* The thread of one event-source service.
event_service(s) ==
  service_poll(s) \/ service_process(s) \/ service_wake(s)

\* The decision service's thread, once started: it drains every cycle. At
\* "run" the thread is in its try block: in process_pending_decisions, or in
\* the time.sleep that follows it (drain_pc = "idle").
decision_service ==
  /\ svc_pc["decision_engine"] = "run"
  /\ autonomous_decision_service

\* ------------------------------------------------------------ the sleeps
\* The argument of time.sleep at the end of a tick, in seconds.
interval(s) ==
  CASE s = "scanner_monitor" -> 5
    [] s = "weather_processor" -> 300
    [] s = "traffic_analyzer" -> 30
    [] s = "schedule_optimizer" -> 600
    [] s = "context_processor" -> 60
    [] s = "decision_engine" -> 10

\* Mutant: every except clause sleeps twice the service's interval.
recovery_delay_doubled(s) == 2 * interval(s)

\* The argument of time.sleep in the except clause, in seconds.
recovery_delay(s) ==
  CASE s = "scanner_monitor" -> 10
    [] s = "weather_processor" -> 60
    [] s = "traffic_analyzer" -> 60
    [] s = "schedule_optimizer" -> 300
    [] s = "context_processor" -> 120
    [] s = "decision_engine" -> 30

\* The seconds the thread's current time.sleep call was given (0: not in one).
sleep_seconds(s) ==
  CASE svc_pc[s] = "sleep" -> interval(s)
    [] svc_pc[s] = "backoff" -> recovery_delay(s)
    [] OTHER -> 0

\* An exception leaves process_pending_decisions after a Decision was
\* appended (the print that ends execute_decision is the one statement there
\* that can raise, on a closed stdout): the call is abandoned with the rest
\* of the queue unpopped and the except clause of the service sleeps.
decision_service_fault ==
  /\ svc_pc["decision_engine"] = "run"
  /\ drain_pc = "check"
  /\ drain_pc' = "idle"
  /\ svc_pc' = [svc_pc EXCEPT !["decision_engine"] = "backoff"]
  /\ UNCHANGED <<pending_decisions, decision_history, now, decision,
                 last_call, next_oid, drain_snapshot, created_at_call,
                 created_at_return>>
  /\ UNCHANGED <<system_status, background_services, supervisor, data_queues,
                 user_preferences>>
  /\ UNCHANGED appVars

\* CarolineOS as deployed: the supervisor starts the threads and the threads
\* run, driven by the simulators. The clock is held.
OSNext ==
  \/ start_service
  \/ start_service_raises
  \/ startup_completes
  \/ \E s \in EventServices : service_poll(s)
  \/ \E s \in EventServices : service_process(s)
  \/ \E s \in EventServices : service_fault(s)
  \/ \E s \in EventServices : service_wake(s)
  \/ decision_service
  \/ decision_service_fault
  \/ service_wake("decision_engine")

OSSpec == Init /\ [][OSNext]_vars

\* Every started thread keeps being scheduled; faults and thread-start
\* failures are never forced.
OSFairSpec ==
  /\ OSSpec
  /\ \A s \in EventServices : WF_vars(event_service(s))
  /\ WF_vars(decision_service \/ service_wake("decision_engine"))
  /\ WF_vars(start_service \/ startup_completes)

\* CarolineOS with the clock running.
OSClockNext == OSNext \/ Tick

OSClockSpec == Init /\ [][OSClockNext]_vars

\* ---- C13 ---------------------------------------------------------------
\* C13: with the decision-execution service scheduled again and again, every
\* Decision put on the pending queue, by a rule or by force_decision, is
\* eventually in the history with a terminal status.
C13_EveryDecisionRecorded ==
  \A o \in 0..(MaxDecisions - 1) :
    (o < next_oid) ~>
      (\E i \in HistoryIdx :
         /\ decision_history[i].oid = o
         /\ decision_history[i].status \in TerminalStatuses)

C13_Witness ==
  /\ drain_pc = "idle"
  /\ next_oid = 2
  /\ Len(decision_history) = 2
  /\ decision_history[1].trigger = "schedule_conflict"
  /\ decision_history[2].trigger = "user_request"
  /\ pending_decisions = <<>>

C17_MissingFieldIsSilentMiss ==
  [][/\ \A e \in ScannerEvents :
          (~Has(e, "location_extracted") /\ process_scanner_event(e)) =>
            PutNone /\ last_call'.raised = PyNone
     /\ \A e \in WeatherEvents :
          (~Has(e, "alerts") /\ process_weather_event(e)) =>
            PutNone /\ last_call'.raised = PyNone
     /\ \A e \in TrafficEvents :
          (~CarriesTravelTimeChange(e) /\ process_traffic_event(e)) =>
            PutNone /\ last_call'.raised = PyNone
     /\ \A e \in ScheduleEvents :
          (~Has(e, "conflicts_resolved") /\ process_schedule_event(e)) =>
            PutNone /\ last_call'.raised = PyNone]_vars

\* ---- C14 ---------------------------------------------------------------
\* Once start_background_services has completed (it sets system_status to
\* "operational" as its last statement), background_services has exactly six
\* entries, the five event-source services and decision_engine; every entry
\* has status "running" and a last_activity timestamp, and every event-source
\* thread has been started. A supervisor that has left its loop normally
\* either has set "operational" or is about to.
StartupCompleted == system_status = "operational"

C14_SixServicesRunning ==
  /\ system_status \in {"initializing", "operational"}
  /\ StartupCompleted =>
       /\ DOMAIN background_services = EventServices \cup {"decision_engine"}
       /\ Cardinality(DOMAIN background_services) = 6
       /\ \A name \in DOMAIN background_services :
            /\ background_services[name].status = "running"
            /\ Has(background_services[name], "last_activity")
            /\ background_services[name].last_activity \in 0..now
       /\ \A s \in EventServices : svc_pc[s] # "unstarted"
  /\ (~supervisor.raised /\ supervisor.at = Len(Services) + 1) =>
       (StartupCompleted \/ ENABLED startup_completes)

C14_Witness ==
  /\ StartupCompleted
  /\ Cardinality(DOMAIN background_services) = 6
  /\ background_services["decision_engine"].status = "running"
  /\ background_services["scanner_monitor"].last_activity = 0

\* ---- C15 ---------------------------------------------------------------
\* When thread.start() fails for one service during startup, that service is
\* registered with status "error", every service started before it is still
\* registered as running, and the supervisor goes on to the services after it.
FailedService == Services[supervisor.at]

C15_StartFailureIsReported ==
  supervisor.raised =>
    /\ FailedService \in DOMAIN background_services
    /\ background_services[FailedService].status = "error"
    /\ \A i \in 1..(supervisor.at - 1) :
         /\ Services[i] \in DOMAIN background_services
         /\ background_services[Services[i]].status = "running"
    /\ (supervisor.at < Len(Services) => ENABLED start_service)

\* ---- C16 ---------------------------------------------------------------
\* An exception inside a tick of a service never ends its thread: a started
\* thread is always in its loop; the step that takes a thread to its except
\* clause changes nothing but that thread's position (no other thread, no
\* data queue, not the pending queue, the held Decision or the history); the
\* back-off can always end, ends at the top of the loop, and under fair
\* scheduling does end there.
InLoop == {"run", "process", "sleep", "backoff"}

Produced(s) == { data[1] : data \in simulate(s) \ {<<>>} }

C19_TickOrder ==
  [][/\ \A s \in EventServices :
          LET q == QueueOf(s) IN
          /\ data_queues'[q] # data_queues[q] =>
               /\ svc_pc[s] = "run" /\ svc_pc'[s] = "process"
               /\ \E e \in Produced(s) :
                    data_queues'[q] = Append(data_queues[q], e)
               /\ \A r \in QueueNames \ {q} : data_queues'[r] = data_queues[r]
               /\ pending_decisions' = pending_decisions
          /\ (svc_pc[s] = "run" /\ svc_pc'[s] = "process") =>
               Len(data_queues'[q]) = Len(data_queues[q]) + 1
          /\ (svc_pc[s] = "run" /\ svc_pc'[s] = "sleep") =>
               /\ data_queues' = data_queues
               /\ pending_decisions' = pending_decisions
               /\ decision_history' = decision_history
          /\ svc_pc[s] = "run" =>
               svc_pc'[s] \in {"run", "process", "sleep", "backoff"}
          /\ svc_pc[s] = "process" =>
               svc_pc'[s] \in {"process", "sleep", "backoff"}
          /\ svc_pc[s] = "sleep" => svc_pc'[s] \in {"sleep", "run"}
     /\ next_oid' # next_oid =>
          \E s \in EventServices :
            /\ svc_pc[s] = "process" /\ svc_pc'[s] = "sleep"
            /\ Len(data_queues[QueueOf(s)]) > 0
            /\ pending_decisions'[Len(pending_decisions')].data =
                 data_queues[QueueOf(s)][Len(data_queues[QueueOf(s)])]
    ]_vars

C19_Witness ==
  /\ svc_pc["scanner_monitor"] = "sleep"
  /\ Len(data_queues["scanner_feed"]) = 1
  /\ Len(pending_decisions) = 1
  /\ pending_decisions[1].data = data_queues["scanner_feed"][1]
  /\ svc_pc["traffic_analyzer"] = "sleep"
  /\ data_queues["traffic_feed"] = <<>>

\* ---- C20 ---------------------------------------------------------------
\* Every event put on a data queue is eventually removed from it: a data
\* queue that holds an event is later empty again.
C20_EventsAreDequeued ==
  \A q \in QueueNames :
    (Len(data_queues[q]) > 0) ~> (data_queues[q] = <<>>)

\* ---- C21 (as stated) ---------------------------------------------------
\* A service in its exception back-off sleeps twice its normal interval, for
\* each of the six services.
C21_Original ==
  \A s \in DOMAIN svc_pc :
    svc_pc[s] = "backoff" => sleep_seconds(s) = 2 * interval(s)

\* ---- C21 ---------------------------------------------------------------
\* A service that sleeps after a tick sleeps its interval (scanner 5 s,
\* weather 300 s, traffic 30 s, schedule 600 s, context 60 s, decision
\* execution 10 s); a service in its exception back-off sleeps 10 s
\* (scanner), 60 s (weather), 60 s (traffic), 300 s (schedule), 120 s
\* (context) or 30 s (decision execution): twice the interval for scanner,
\* traffic and context only.
SleepTable ==
  [scanner_monitor |-> <<5, 10>>, weather_processor |-> <<300, 60>>,
   traffic_analyzer |-> <<30, 60>>, schedule_optimizer |-> <<600, 300>>,
   context_processor |-> <<60, 120>>, decision_engine |-> <<10, 30>>]

C21_RecoveryDelays ==
  /\ DOMAIN svc_pc = DOMAIN SleepTable
  /\ \A s \in DOMAIN svc_pc :
       /\ svc_pc[s] = "sleep" => sleep_seconds(s) = SleepTable[s][1]
       /\ svc_pc[s] = "backoff" => sleep_seconds(s) = SleepTable[s][2]
       /\ svc_pc[s] \notin {"sleep", "backoff"} => sleep_seconds(s) = 0
       /\ (svc_pc[s] = "backoff" /\ sleep_seconds(s) = 2 * SleepTable[s][1])
            <=> (svc_pc[s] = "backoff" /\ s \in {"scanner_monitor",
                                                 "traffic_analyzer",
                                                 "context_processor"})

C21_Witness ==
  /\ svc_pc["weather_processor"] = "backoff"
  /\ sleep_seconds("weather_processor") = 60
  /\ svc_pc["decision_engine"] = "backoff"
  /\ sleep_seconds("decision_engine") = 30
  /\ svc_pc["scanner_monitor"] = "backoff"
  /\ Len(decision_history) = 1

\* ---- C22 ---------------------------------------------------------------
\* A service's loop refreshes its handle's last_activity as it runs: when a
\* service ends a tick and goes to sleep, its handle's last_activity is the
\* time of that tick, so it has advanced past the startup value whenever the
\* clock has.
C22_LastActivityRefreshed ==
  [][\A s \in EventServices :
       (svc_pc[s] \in {"run", "process"} /\ svc_pc'[s] = "sleep") =>
         background_services'[s].last_activity = now']_vars

\* ---- C23 ---------------------------------------------------------------
\* The history has a single writer. A step that changes the history is the
\* drain's execute step: it appends the Decision the drain holds and touches
\* neither the pending queue nor the creation counter. A step that creates a
\* Decision (a producer's rule or force_decision) only appends it to the
\* pending queue: the history, the Decision the drain holds and the drain's
\* position are as before.
C23_SingleWriter ==
  [][/\ decision_history' # decision_history =>
          /\ drain_pc = "exec" /\ drain_pc' = "check"
          /\ decision # <<>> /\ decision' = <<>>
          /\ Len(decision_history') = Len(decision_history) + 1
          /\ decision_history'[Len(decision_history')].oid = decision[1].oid
          /\ pending_decisions' = pending_decisions
          /\ next_oid' = next_oid
     /\ next_oid' # next_oid =>
          /\ decision_history' = decision_history
          /\ decision' = decision
          /\ drain_pc' = drain_pc
          /\ Len(pending_decisions') = Len(pending_decisions) + 1
          /\ SubSeq(pending_decisions', 1, Len(pending_decisions))
               = pending_decisions
     /\ \A body \in ForceBodies :
          force_decision(body) => decision_history' = decision_history
    ]_vars

C23_Witness ==
  /\ Len(decision_history) = 1
  /\ decision_history[1].trigger = "scanner_event"
  /\ drain_pc = "get"
  /\ Len(pending_decisions) = 1
  /\ pending_decisions[1].trigger = "user_request"
  /\ last_call.op = "force_decision"

\* ---- C24 ---------------------------------------------------------------
\* Every Decision ever created is in exactly one place: on the pending queue,
\* held by the drain between its pop and its append, or in the history. The
\* drain holds at most one Decision and holds one exactly between pop and
\* append; no Decision is lost or duplicated, and no place holds a Decision
\* that was never created.
CountIn(seq, o) == Cardinality({ i \in 1..Len(seq) : seq[i].oid = o })

C24_ExactlyOnePlace ==
  /\ Len(decision) <= 1
  /\ (decision # <<>>) <=> (drain_pc = "exec")
  /\ \A o \in 0..(next_oid - 1) :
       CountIn(pending_decisions, o) + CountIn(decision, o)
         + CountIn(decision_history, o) = 1
  /\ Len(pending_decisions) + Len(decision) + Len(decision_history) = next_oid

C24_Witness ==
  /\ drain_pc = "exec"
  /\ Len(decision) = 1
  /\ decision[1].trigger = "schedule_conflict"
  /\ Len(pending_decisions) = 1
  /\ pending_decisions[1].trigger = "user_request"
  /\ decision_history = <<>>

\* ---- C25 ---------------------------------------------------------------
\* Driven by its simulators alone, the system creates only route_optimization
\* Decisions triggered by scanner events: no event the weather, traffic or
\* schedule simulator can return satisfies its rule (and the traffic event
\* has both keys the rule subscripts), every scanner event does, so every
\* Decision anywhere is a scanner Decision with auto_execute true, none has
\* status pending_approval and every history entry has status executed.
C25_OnlyScannerDecisions ==
  /\ \A e \in Produced("scanner_monitor") : scanner_rule(e)
  /\ \A e \in Produced("weather_processor") : ~weather_rule(e)
  /\ \A e \in Produced("traffic_analyzer") :
       traffic_keys(e) /\ ~traffic_rule(e)
  /\ \A e \in Produced("schedule_optimizer") : ~schedule_rule(e)
  /\ \A d \in Queued \cup Held \cup Recorded :
       /\ d.type = "route_optimization"
       /\ d.trigger = "scanner_event"
       /\ d.urgency = "medium"
       /\ d.auto_execute = TRUE
       /\ Status(d) # "pending_approval"
       /\ d.data \in Produced("scanner_monitor")
       /\ Len(data_queues["scanner_feed"]) > 0
  /\ \A r \in Recorded : r.status = "executed"
  /\ next_oid <= Len(data_queues["scanner_feed"])

C25_Witness ==
  /\ Len(decision_history) = 1
  /\ decision_history[1].type = "route_optimization"
  /\ decision_history[1].status = "executed"
  /\ Len(data_queues["scanner_feed"]) = 1
  /\ svc_pc["weather_processor"] = "run"
  /\ svc_pc["schedule_optimizer"] = "run"
  /\ system_status = "operational"

\* ---- C26 ---------------------------------------------------------------
\* A context event never creates a Decision. The context service puts the
\* event its simulator produced on the user_context queue; its engine call
\* then merges the event's preferences map into user_preferences (the event's
\* values for the keys it has, the old values for the others); both steps
\* leave the pending queue, the creation counter and the history unchanged.
\* user_preferences changes in no other step.
Context == "context_processor"

C26_ContextOnlyMergesPreferences ==
  [][/\ (svc_pc[Context] = "run" /\ svc_pc'[Context] = "process") =>
          /\ \E e \in Produced(Context) :
               data_queues'["user_context"] =
                 Append(data_queues["user_context"], e)
          /\ user_preferences' = user_preferences
          /\ pending_decisions' = pending_decisions
          /\ decision_history' = decision_history
          /\ next_oid' = next_oid
     /\ (svc_pc[Context] = "process" /\ svc_pc'[Context] = "sleep") =>
          LET q == data_queues["user_context"]
              prefs == q[Len(q)].preferences
          IN /\ DOMAIN user_preferences' =
                  DOMAIN prefs \cup DOMAIN user_preferences
             /\ \A k \in DOMAIN prefs : user_preferences'[k] = prefs[k]
             /\ \A k \in DOMAIN user_preferences \ DOMAIN prefs :
                  user_preferences'[k] = user_preferences[k]
             /\ pending_decisions' = pending_decisions
             /\ decision_history' = decision_history
             /\ next_oid' = next_oid
             /\ data_queues' = data_queues
     /\ user_preferences' # user_preferences =>
          (svc_pc[Context] = "process" /\ svc_pc'[Context] = "sleep")
    ]_vars

C26_Witness ==
  /\ svc_pc[Context] = "sleep"
  /\ Len(data_queues["user_context"]) = 1
  /\ user_preferences = [route_preference |-> "fastest",
                          communication_style |-> "proactive"]
  /\ next_oid = 0
  /\ pending_decisions = <<>>
  /\ decision_history = <<>>

\* ---- C27 ---------------------------------------------------------------
\* A registered service's handle has status "running" in every state, its
\* back-off included; a handle, once stored, is never changed or removed; a
\* service is registered exactly when its thread was started, and a started
\* thread is always in its loop; system_status changes only from
\* "initializing" to "operational".
C27_RunningForever ==
  /\ [](\A name \in DOMAIN svc_pc :
          /\ (name \in DOMAIN background_services) <=>
               (svc_pc[name] # "unstarted")
          /\ svc_pc[name] \in InLoop \cup {"unstarted"}
          /\ name \in DOMAIN background_services =>
               background_services[name].status = "running")
  /\ [][/\ \A name \in DOMAIN background_services :
              /\ name \in DOMAIN background_services'
              /\ background_services'[name] = background_services[name]
        /\ \A name \in DOMAIN svc_pc :
             svc_pc[name] \in InLoop => svc_pc'[name] \in InLoop
        /\ system_status' # system_status =>
             (system_status = "initializing" /\ system_status' = "operational")
       ]_vars

C27_Witness ==
  /\ system_status = "operational"
  /\ svc_pc["decision_engine"] = "backoff"
  /\ svc_pc["scanner_monitor"] = "backoff"
  /\ background_services["decision_engine"].status = "running"
  /\ background_services["scanner_monitor"].status = "running"
  /\ Len(decision_history) = 1

\* ------------------------------------------------- the service registry
\* CarolineServiceRegistry.initialization_order
initialization_order ==
  << "neural_interface", "llm_orchestrator", "voice_engines",
     "visual_intelligence", "memory_bank", "unrestricted_core" >>

\* What _initialize_service can return for a service: True for the services
\* that are "already initialized"; for visual_intelligence the import of
\* _init_visual_intelligence succeeds (True) or fails (False).
initialize_service(service_name) ==
  IF service_name = "visual_intelligence" THEN {TRUE, FALSE} ELSE {TRUE}

\* Mutant: a service counts as healthy unless its initialization failed.
check_service_health_lenient(service) ==
  service.status \notin {"failed", "error"}

\* _check_service_health: create_app registers every service without a
\* health_check function, so the basic check decides: status == 'active'.
check_service_health(service) ==
  service.status = "active"

\* The frame of a request to the Flask application: CarolineOS is untouched.
app_frame ==
  /\ UNCHANGED <<pending_decisions, decision_history, now, drain_pc, decision,
                 last_call, next_oid, drain_snapshot, created_at_call,
                 created_at_return>>
  /\ UNCHANGED osVars

\* GET /api/status arrives: the route calls initialize_services, which starts
\* its loop over initialization_order. One such request runs at a time.
api_status ==
  /\ init_call.at = 0
  /\ status_requests < MaxStatusRequests
  /\ status_requests' = status_requests + 1
  /\ init_call' = [at |-> 1, phase |-> "mark"]
  /\ UNCHANGED <<registry, health_response, current_strategy, strategy_response>>
  /\ app_frame

\* One iteration, first half: `if service_name in self.services:` and
\* service['status'] = 'initializing'; a name that is not registered is
\* skipped.
initialize_mark ==
  /\ init_call.phase = "mark"
  /\ init_call.at <= Len(initialization_order)
  /\ LET service_name == initialization_order[init_call.at] IN
       IF service_name \in DOMAIN registry
         THEN /\ registry' = [registry EXCEPT
                                ![service_name].status = "initializing"]
              /\ init_call' = [init_call EXCEPT !.phase = "init"]
         ELSE /\ init_call' = [init_call EXCEPT !.at = @ + 1]
              /\ UNCHANGED registry
  /\ UNCHANGED <<status_requests, health_response, current_strategy,
                 strategy_response>>
  /\ app_frame

\* One iteration, second half: init_result = self._initialize_service(...);
\* service['status'] = 'active' if init_result else 'failed'.
initialize_finish ==
  /\ init_call.phase = "init"
  /\ LET service_name == initialization_order[init_call.at] IN
       \E init_result \in initialize_service(service_name) :
         registry' = [registry EXCEPT
                        ![service_name].status =
                          IF init_result THEN "active" ELSE "failed"]
  /\ init_call' = [at |-> init_call.at + 1, phase |-> "mark"]
  /\ UNCHANGED <<status_requests, health_response, current_strategy,
                 strategy_response>>
  /\ app_frame

\* initialize_services returns and the route sends its response.
api_status_respond ==
  /\ init_call.phase = "mark"
  /\ init_call.at = Len(initialization_order) + 1
  /\ init_call' = [at |-> 0, phase |-> "idle"]
  /\ UNCHANGED <<registry, status_requests, health_response, current_strategy,
                 strategy_response>>
  /\ app_frame

\* GET /api/health (health_check of app.py): 200 if every service of
\* get_service_status is healthy, 503 otherwise.
health_check ==
  /\ health_response' =
       IF \A name \in DOMAIN registry : check_service_health(registry[name])
         THEN 200 ELSE 503
  /\ UNCHANGED <<registry, init_call, status_requests, current_strategy,
                 strategy_response>>
  /\ app_frame

\* ------------------------------------------------- the LLM orchestrator
\* The keys of LLMOrchestrator.orchestration_strategies.
orchestration_strategies ==
  { "parallel_processing", "sequential_refinement", "specialized_routing",
    "consensus_building", "adaptive_selection" }

\* JSON bodies of POST /api/llm/strategy: each known strategy, two unknown
\* ones, and a body without the key.
StrategyBodies ==
  { [strategy |-> k] : k \in orchestration_strategies }
  \cup { [strategy |-> "round_robin"], [strategy |-> ""], EmptyDict }

\* Mutant: the strategy is stored without the membership test.
set_orchestration_strategy_unchecked(body) ==
  /\ current_strategy' =
       IF Has(body, "strategy") THEN body.strategy ELSE "adaptive_selection"
  /\ strategy_response' = 200
  /\ UNCHANGED <<registry, init_call, status_requests, health_response>>
  /\ app_frame

\* POST /api/llm/strategy: data.get('strategy', 'adaptive_selection'); a
\* known strategy is stored (200), an unknown one is answered 400.
set_orchestration_strategy(body) ==
  /\ LET strategy == IF Has(body, "strategy")
                        THEN body.strategy ELSE "adaptive_selection"
     IN IF strategy \in orchestration_strategies
          THEN /\ current_strategy' = strategy
               /\ strategy_response' = 200
          ELSE /\ strategy_response' = 400
               /\ UNCHANGED current_strategy
  /\ UNCHANGED <<registry, init_call, status_requests, health_response>>
  /\ app_frame

\* The Flask application's requests, in any order and interleaved with the
\* steps of a running initialize_services.
AppNext ==
  \/ api_status
  \/ initialize_mark
  \/ initialize_finish
  \/ api_status_respond
  \/ health_check
  \/ \E body \in StrategyBodies : set_orchestration_strategy(body)

AppSpec == Init /\ [][AppNext]_vars

\* ---- C28 ---------------------------------------------------------------
\* In the service registry every service is 'registered' until the first
\* GET /api/status runs initialize_services; while a call of
\* initialize_services is at a service, that service is 'initializing'; when
\* a call has returned every service is 'active', 'failed' or 'error' (in
\* fact 'active'), after the first call and after every repetition alike. A
\* health check answers 200 exactly if every registered service is 'active'
\* and 503 otherwise, so a health check made before the first /api/status
\* request answers 503.
AllActive == \A name \in DOMAIN registry : registry[name].status = "active"

C29_StrategyIsKnown ==
  /\ [](/\ Cardinality(orchestration_strategies) = 5
        /\ current_strategy \in orchestration_strategies
        /\ strategy_response = 0 => current_strategy = "adaptive_selection")
  /\ [][\A body \in StrategyBodies :
         set_orchestration_strategy(body) =>
           IF ~Has(body, "strategy")
             THEN current_strategy' = "adaptive_selection"
                    /\ strategy_response' = 200
             ELSE IF body.strategy \in orchestration_strategies
                    THEN current_strategy' = body.strategy
                           /\ strategy_response' = 200
                    ELSE current_strategy' = current_strategy
                           /\ strategy_response' = 400]_vars

C29_Witness ==
  /\ current_strategy = "consensus_building"
  /\ strategy_response = 400

====
